---- MODULE Spec2Model ----
(***************************************************************************)
(* A model of the meily commerce bot: the per-user conversation handlers   *)
(* (DefaultHandler and the handlers it dispatches to, the two callback     *)
(* handlers) and the broadcast loop of Handler.SendMessage.                *)
(*                                                                         *)
(* Spec          the conversation handlers, one action per inbound update  *)
(* SpecBroadcast one broadcast job, every worker goroutine named by its    *)
(*               recipient, with the cancellation of the context           *)
(* SpecPool      one broadcast job over an audience larger than the        *)
(*               errgroup limit, the worker goroutines counted by the      *)
(*               statement they are at                                     *)
(***************************************************************************)
EXTENDS Integers, FiniteSets, Sequences, TLC

(***************************************************************************)
(* Program constants.                                                      *)
(***************************************************************************)
Cost == 18900
TicketsPerUnit == 3
Limit == 10
Burst == 1
MenuRows == 6
MenuCols == 5
ProgressEvery == 10

stateStart == "start"
stateCount == "count"
statePaid == "paid"
stateContact == "contact"
stateAdminPanel == "admin_panel"
stateBroadcast == "broadcast"

(***************************************************************************)
(* Bounds of the model.                                                    *)
(***************************************************************************)
MaxQty == 2
MaxTicket == 3
MaxLoto == 3
MaxClients == 2
MaxAudience == 6
MaxShort == 12
MaxJobs == 2

Users == {1, 2}

\* cfg.AdminID, and AdminHandler's test of the sender of an update.
AdminID == 0
IsAdminAnyone(u) == TRUE
IsAdmin(u) == u = AdminID
Quantities == 1..MaxQty
TicketIds == 1..MaxTicket

(***************************************************************************)
(* The state store (Redis): one record per user, or none.                  *)
(***************************************************************************)
NoState == [State |-> "nil", Count |-> 0, IsPaid |-> FALSE, Contact |-> ""]
UserState(st, count, paid) ==
    [State |-> st, Count |-> count, IsPaid |-> paid, Contact |-> ""]

(***************************************************************************)
(* An uploaded document, by what the receipt handlers make of it: the file *)
(* extension, whether the download succeeds, whether ReadPDF returns its   *)
(* lines, and the text of the line the handler parses as the price         *)
(* (result[2] in JustPaid, result[3] in PaidHandler).  That line is an     *)
(* amount or Garbled, a text strconv.Atoi rejects.                         *)
(***************************************************************************)
Garbled == -1
Amounts == {0, Cost, Cost + 1, 2 * Cost}
LineVals == Amounts \cup {Garbled}
Doc(pdf, fetched, readable, line) ==
    [pdf |-> pdf, fetched |-> fetched, readable |-> readable, price |-> line]
Docs ==
    {Doc(FALSE, FALSE, FALSE, Garbled),
     Doc(TRUE, FALSE, FALSE, Garbled),
     Doc(TRUE, TRUE, FALSE, Garbled)}
    \cup {Doc(TRUE, TRUE, TRUE, a) : a \in LineVals}

ParsePrice(line) ==
    IF line = Garbled THEN [err |-> TRUE, val |-> 0] ELSE [err |-> FALSE, val |-> line]

\* service.Validator: nil (TRUE) iff the amount is total * cfg.Cost; the Bin
\* it compares is the one the caller copied from cfg.Bin.
Validator(total, actualPrice) == actualPrice = total * Cost

\* How far a receipt handler gets with a document whose price line is `line`,
\* validated against `total` units: the step that stops it, or "match".
Verdict(doc, total) ==
    IF ~doc.pdf THEN "notPdf"
    ELSE IF ~doc.fetched THEN "noFetch"
    ELSE IF ~doc.readable THEN "unreadable"
    ELSE IF ParsePrice(doc.price).err THEN "garbled"
    ELSE IF ~Validator(total, ParsePrice(doc.price).val) THEN "mismatch"
    ELSE "match"

VARIABLES
    store,       \* redisRepo: user -> UserState, NoState when there is none
    just,        \* table just: the registered users
    lotoCount,   \* table loto: number of rows per user
    clients,     \* table client: number of rows per user
    buttons,     \* the inline buttons each user has been sent
    ev,          \* the update handled last and what its handler did
    fault        \* what failed in the stores while that update was handled

chatVars == <<store, just, lotoCount, clients, buttons, ev, fault>>

\* The variables of a broadcast job (Handler.SendMessage).
VARIABLES
    jobN,          \* len(userIds)
    msgType,       \* what parseMessage made of the admin's message
    idx,           \* number of userIds the range loop has passed to errgroup.Go
    bpc,           \* where the goroutine of SendMessage is
    wstate,        \* recipient -> where its worker goroutine is
    attempts,      \* recipient -> number of sendToUser calls made for it
    calls,         \* recipient -> number of Bot API send calls made for it
    tokens,        \* the tokens in the bucket of rateLimiter
    tokenOf,       \* recipient -> number of tokens its worker was granted
    pool,          \* the workers of SpecPool, counted by where they are
    successCount,
    failedCount,
    curS,          \* currentSuccess, read at line 225
    curF,          \* currentFailed, read at line 226
    progress,      \* the progress texts edited into the status message
    summary,       \* the final text edited into the status message
    edits,         \* the Bot API calls made about the status message, in order
    inflight,      \* the number of those calls that have not returned
    signal,        \* the context passed to SendMessage has been cancelled
    ctxDone,       \* the context errgroup.WithContext returned is done
    cancelAt       \* idx when the signal fired

jobVars ==
    <<jobN, msgType, idx, bpc, wstate, attempts, calls, tokens, tokenOf, pool, successCount, failedCount,
      curS, curF, progress, summary, edits, inflight, signal, ctxDone, cancelAt>>

\* The admin's conversation (Handler.AdminHandler, Handler.SendMessage).
VARIABLES
    adminState,    \* h.state[adminId], NoAdminState when the map has no entry
    adminEv,       \* the admin's message handled last and what was done with it
    running        \* the calls of SendMessage that are between lines 199 and 284

adminVars == <<adminState, adminEv, running>>

vars == <<chatVars, jobVars, adminVars>>

(***************************************************************************)
(* What fails while one update is handled: the dispatcher's read of the    *)
(* state ("err"), a later read of it by the handler ("err", or "absent"    *)
(* when the record is gone by then), the writes and deletes of the state   *)
(* (write FALSE), and the InsertLoto call that fails (loto = i for the     *)
(* i-th, 0 for none).  Faults has the updates during which nothing or one  *)
(* thing fails.                                                            *)
(***************************************************************************)
NoFault == [read |-> "ok", reread |-> "ok", write |-> TRUE, loto |-> 0]
Faults ==
    {NoFault, [NoFault EXCEPT !.read = "err"], [NoFault EXCEPT !.write = FALSE]}
        \cup {[NoFault EXCEPT !.reread = r] : r \in {"absent", "err"}}
        \cup {[NoFault EXCEPT !.loto = i] : i \in 1..MaxLoto}

NoEvent ==
    [user |-> 0, kind |-> "none", before |-> NoState, price |-> 0, verdict |-> "none",
     inserted |-> 0, distinct |-> TRUE, panic |-> FALSE, sent |-> {}, pressed |-> 0]

Event(u, kind, sent) ==
    [NoEvent EXCEPT !.user = u, !.kind = kind, !.before = store[u], !.sent = sent]

ChatInit ==
    /\ store = [u \in Users |-> NoState]
    /\ just = {}
    /\ lotoCount = [u \in Users |-> 0]
    /\ clients = [u \in Users |-> 0]
    /\ buttons = [u \in Users |-> {}]
    /\ ev = NoEvent
    /\ fault = NoFault

\* The phase of a user; no record means the implicit default.
Phase(u) == IF store[u] = NoState THEN stateStart ELSE store[u].State

getOrCreateUserStateAll(s, u) ==
    [v \in Users |-> IF s[v] = NoState THEN UserState(stateStart, 0, FALSE) ELSE s[v]]

getOrCreateUserState(s, u) ==
    IF s[u] = NoState THEN [s EXCEPT ![u] = UserState(stateStart, 0, FALSE)] ELSE s

\* The state getOrCreateUserState returns to DefaultHandler, and the store
\* it leaves: a failed read gives the default record and saves nothing, and
\* a failed save of the created record is only logged.
Loaded(s, u, f) ==
    IF f.read = "err" THEN UserState(stateStart, 0, FALSE)
    ELSE getOrCreateUserState(s, u)[u]
Stored(s, u, f) ==
    IF f.read = "err" \/ ~f.write THEN s ELSE getOrCreateUserState(s, u)

\* The state a handler gets when it reads the store again: nil (NoState)
\* when the record is absent or the read fails.
Reread(s, u, f) == IF f.reread = "ok" THEN s[u] ELSE NoState

Injective(f) == \A i, j \in DOMAIN f : i # j => f[i] # f[j]


(***************************************************************************)
(* The handlers DefaultHandler dispatches to.  Each takes the store s as   *)
(* getOrCreateUserState left it and sets every variable of the chat but    *)
(* just, which DefaultHandler itself updates.                              *)
(***************************************************************************)
Reply(u, kind, s, sent) ==
    /\ store' = s
    /\ ev' = Event(u, kind, sent)
    /\ UNCHANGED <<lotoCount, clients>>

StartHandler(u, kind, s) ==
    /\ Reply(u, kind, s, {"promo"})
    /\ buttons' = [buttons EXCEPT ![u] = @ \cup {"buy"}]

\* The record JustPaid saves for a validated receipt of `total` units.
JustPaidState(total) == UserState(stateContact, total, TRUE)

JustPaid(u, s, doc, f) ==
    LET pp == ParsePrice(doc.price)
        total == pp.val \div Cost
        totalLoto == total * TicketsPerUnit
        \* the rows InsertLoto wrote before the loop ended or returned
        rows == IF f.loto \in 1..totalLoto THEN f.loto - 1 ELSE totalLoto
    IN  /\ UNCHANGED <<clients, buttons>>
        /\ IF ~doc.pdf
           THEN /\ store' = s
                /\ ev' = [Event(u, "document", {"onlyPdf"}) EXCEPT !.verdict = "notPdf"]
                /\ UNCHANGED lotoCount
           ELSE IF ~doc.fetched \/ ~doc.readable \/ pp.err \/ ~Validator(total, pp.val)
           THEN /\ store' = s
                /\ ev' = [Event(u, "document", {}) EXCEPT
                              !.verdict = Verdict(doc, total)]
                /\ UNCHANGED lotoCount
           ELSE IF ~f.write
           THEN \* SaveUserState failed: logged, and JustPaid returns
                /\ store' = s
                /\ ev' = [Event(u, "document", {}) EXCEPT !.verdict = "match"]
                /\ UNCHANGED lotoCount
           ELSE /\ lotoCount[u] + totalLoto <= MaxLoto
                /\ store' = [s EXCEPT ![u] = JustPaidState(total)]
                /\ \E tickets \in [1..rows -> TicketIds] :
                      ev' = [Event(u, "document",
                                   IF rows = totalLoto THEN {"accepted"} ELSE {})
                                 EXCEPT
                                 !.verdict = "match",
                                 !.inserted = rows,
                                 !.distinct = Injective(tickets)]
                /\ lotoCount' = [lotoCount EXCEPT ![u] = @ + rows]

PaidStateUnpaid(state) == [state EXCEPT !.State = stateContact]

\* What PaidHandler writes back over the record it read: lines 631-632.
PaidState(state) == [state EXCEPT !.IsPaid = TRUE, !.State = stateContact]

PaidHandler(u, kind, s, doc, f) ==
    LET pp == ParsePrice(doc.price)
        state == Reread(s, u, f)
        ok == ~pp.err /\ Validator(state.Count, pp.val)
    IN  /\ UNCHANGED <<lotoCount, clients, buttons>>
        /\ IF kind # "document"
           THEN /\ store' = s
                /\ ev' = Event(u, kind, {})
           ELSE IF ~doc.pdf
           THEN /\ store' = s
                /\ ev' = [Event(u, kind, {"onlyPdf"}) EXCEPT !.verdict = "notPdf"]
           ELSE IF ~doc.fetched
           THEN /\ store' = s
                /\ ev' = [Event(u, kind, {}) EXCEPT !.verdict = "noFetch"]
           ELSE IF ~doc.readable
           THEN \* result is nil and result[3] panics
                /\ store' = s
                /\ ev' = [Event(u, kind, {}) EXCEPT
                              !.verdict = "unreadable", !.panic = TRUE]
           ELSE IF state = NoState
           THEN \* state is nil and state.Count panics
                /\ store' = s
                /\ ev' = [Event(u, kind, {}) EXCEPT
                              !.verdict = "noState", !.panic = TRUE]
           ELSE \* neither a price that does not parse nor a rejection by the
                \* Validator returns: both only send the retry text; a failed
                \* save is only logged
                /\ store' = IF f.write THEN [s EXCEPT ![u] = PaidState(state)] ELSE s
                /\ ev' = [Event(u, kind,
                                (IF ok THEN {} ELSE {"retry"}) \cup {"accepted"})
                              EXCEPT !.verdict = Verdict(doc, state.Count)]

\* UserRepository.IsClientUnique on a table that holds n rows of the user.
IsClientUnique(n) == n = 0

AfterContactKept(state) == [state EXCEPT !.Contact = "phone"]

\* What the store holds for the user once ShareContactCallbackHandler has
\* saved the contact and inserted the client row: DeleteUserState, line 787.
AfterContact(state) == NoState

ShareContactCallbackHandler(u, kind, s, f) ==
    LET \* a failed read is replaced by the record {contact, 1, paid}
        state == IF f.reread = "err" THEN UserState(stateContact, 1, TRUE)
                 ELSE Reread(s, u, f)
    IN  /\ UNCHANGED <<lotoCount, buttons>>
        /\ IF kind # "contact"
           THEN /\ store' = s
                /\ ev' = Event(u, kind, {"askContact"})
                /\ UNCHANGED clients
           ELSE IF state = NoState
           THEN \* state is nil and state.Contact panics when the client
                \* entry is built
                /\ store' = s
                /\ ev' = [Event(u, kind, {}) EXCEPT !.panic = TRUE]
                /\ UNCHANGED clients
           ELSE \* the contact is saved, the client row inserted whatever
                \* IsClientUnique(clients[u]) answered (its result is assigned
                \* to _, only its error is looked at), and the state deleted;
                \* a failed save or delete is only logged
                /\ clients[u] < MaxClients
                /\ clients' = [clients EXCEPT ![u] = @ + 1]
                /\ store' = IF f.write THEN [s EXCEPT ![u] = AfterContact(s[u])] ELSE s
                /\ ev' = Event(u, kind, {"address"})

DefaultHandler(u, kind, doc, f) ==
    LET s == Stored(store, u, f)
        st == Loaded(store, u, f).State
    IN  /\ just' = just \cup {u}
        /\ fault' = f
        /\ IF kind = "document" /\ st # statePaid /\ st # stateContact
           THEN JustPaid(u, s, doc, f)
           ELSE IF st = stateCount
           THEN \* CountHandler returns at once: the update is no callback
                /\ Reply(u, kind, s, {})
                /\ UNCHANGED buttons
           ELSE IF st = statePaid THEN PaidHandler(u, kind, s, doc, f)
           ELSE IF st = stateContact THEN ShareContactCallbackHandler(u, kind, s, f)
           ELSE IF st \in {stateAdminPanel, stateBroadcast}
           THEN \* AdminHandler and SendMessage return for any sender but the
                \* admin, whose messages are AdminMessage's
                /\ ~IsAdmin(u)
                /\ Reply(u, kind, s, {})
                /\ UNCHANGED buttons
           ELSE StartHandler(u, kind, s)

(***************************************************************************)
(* The updates of a user: a plain text, a document, a shared contact, the  *)
(* two inline buttons, and a text that is one of the admin labels.         *)
(***************************************************************************)
NoDoc == Doc(FALSE, FALSE, FALSE, Garbled)

TextMessage(u) == DefaultHandler(u, "text", NoDoc, NoFault) /\ UNCHANGED <<jobVars, adminVars>>

DocumentMessage(u, doc) ==
    DefaultHandler(u, "document", doc, NoFault) /\ UNCHANGED <<jobVars, adminVars>>

ContactMessage(u) ==
    DefaultHandler(u, "contact", NoDoc, NoFault) /\ UNCHANGED <<jobVars, adminVars>>

\* The numbers on the buttons of the quantity menu: rows of columns, the
\* button of row i and column j carries i*5 + j + 1.
Menu == {i * MenuCols + j + 1 : i \in 0..(MenuRows - 1), j \in 0..(MenuCols - 1)}

\* The decimal digits %d prints for a number that is not negative.
RECURSIVE Digits(_)
Digits(n) == IF n < 10 THEN <<n>> ELSE Append(Digits(n \div 10), n % 10)

\* strconv.Atoi on a string of decimal digits.
RECURSIVE Atoi(_)
Atoi(ds) ==
    IF Len(ds) = 0 THEN 0
    ELSE 10 * Atoi(SubSeq(ds, 1, Len(ds) - 1)) + ds[Len(ds)]

\* The callback data "count_<num>" of a menu button, as strings.Split on "_"
\* cuts it in CountHandler.
CallbackData(num) == <<"count", Digits(num)>>

\* The record BuyCosmeticsCallbackHandler saves.
BuyState == UserState(stateCount, 0, FALSE)

\* The button 'buy' is pressed; a failed save is only logged.
BuyCosmetics(u, f) ==
    /\ "buy" \in buttons[u]
    /\ store' = IF f.write THEN [store EXCEPT ![u] = BuyState] ELSE store
    /\ buttons' = [buttons EXCEPT ![u] = @ \cup {"count"}]
    /\ ev' = Event(u, "buy", {"menu"})
    /\ fault' = f
    /\ UNCHANGED <<just, lotoCount, clients, jobVars, adminVars>>

BuyCosmeticsCallbackHandler(u) == BuyCosmetics(u, NoFault)

\* The record CountHandler saves for the button count_n.
CountState(n) == UserState(statePaid, n, FALSE)

totalSumRounded(userCount) == ((userCount * Cost) \div 1000) * 1000

\* The sum of the payment text: an int product, far from the 64-bit range
\* for every button of the menu.
totalSum(userCount) == userCount * Cost

\* The button count_n is pressed.
Count(u, n, f) ==
    LET choice == CallbackData(n)
        userCount == Atoi(choice[2])
    IN  /\ "count" \in buttons[u]
        /\ Len(choice) = 2
        /\ store' = IF f.write THEN [store EXCEPT ![u] = CountState(userCount)] ELSE store
        /\ ev' = [Event(u, "quantity", {"pay"}) EXCEPT
                      !.price = totalSum(userCount), !.pressed = n]
        /\ fault' = f
        /\ UNCHANGED <<just, lotoCount, clients, buttons, jobVars, adminVars>>

CountHandler(u, n) == Count(u, n, NoFault)

\* The delivery form is posted for telegram_id u: the location is inserted,
\* the client rows of u get the delivery data and a confirmation is sent.
ClientSaveHandler(u) ==
    /\ ev' = Event(u, "form", {"confirmation"})
    /\ fault' = NoFault
    /\ UNCHANGED <<store, just, lotoCount, clients, buttons, jobVars, adminVars>>


(***************************************************************************)
(* The broadcast loop of Handler.SendMessage, from the creation of the     *)
(* rate limiter (line 199) to the edit of the final summary (line 274).    *)
(* The audience userIds is 1..jobN, in the order of the slice.             *)
(***************************************************************************)
Recipients == 1..MaxAudience

\* The message kinds parseMessage returns and the ones sendToUser sends.
MsgTypes ==
    {"text", "photo", "video", "document", "video_note", "audio", "location", "contact", ""}
Supported == {"text", "photo", "video", "document", "video_note", "audio"}
BroadcastKinds == {"text", "location", ""}

NoSummary == [total |-> 0, success |-> 0, failed |-> 0, rate |-> 0]

\* No job: the state of the job variables while only the chat runs.
JobIdle ==
    /\ jobN = 0
    /\ msgType = ""
    /\ idx = 0
    /\ bpc = "idle"
    /\ wstate = [r \in Recipients |-> "none"]
    /\ attempts = [r \in Recipients |-> 0]
    /\ calls = [r \in Recipients |-> 0]
    /\ tokens = Burst
    /\ tokenOf = [r \in Recipients |-> 0]
    /\ pool = [wait |-> 0, send |-> 0]
    /\ successCount = 0
    /\ failedCount = 0
    /\ curS = 0
    /\ curF = 0
    /\ progress = <<>>
    /\ summary = NoSummary
    /\ edits = <<>>
    /\ inflight = 0
    /\ signal = FALSE
    /\ ctxDone = FALSE
    /\ cancelAt = 0

\* The state at line 204, before the first iteration of the loop.
JobStart(sizes, kinds) ==
    /\ jobN \in sizes
    /\ msgType \in kinds
    /\ idx = 0
    /\ bpc = "go"
    /\ wstate = [r \in Recipients |-> "none"]
    /\ attempts = [r \in Recipients |-> 0]
    /\ calls = [r \in Recipients |-> 0]
    /\ tokens = Burst
    /\ tokenOf = [r \in Recipients |-> 0]
    /\ pool = [wait |-> 0, send |-> 0]
    /\ successCount = 0
    /\ failedCount = 0
    /\ curS = 0
    /\ curF = 0
    /\ progress = <<>>
    /\ summary = NoSummary
    /\ edits = <<>>
    /\ inflight = 0
    /\ signal = FALSE
    /\ ctxDone = FALSE
    /\ cancelAt = 0

\* The goroutines errgroup has started that have not returned.
Active ==
    Cardinality({r \in Recipients : wstate[r] \in {"wait", "send"}})
        + pool.wait + pool.send

MayGoUnlimited(active) == TRUE

\* errgroup.Go blocks while the group runs SetLimit(10) goroutines.
MayGo(active) == active < Limit

\* A call about the status message: b.EditMessageText with
\* MessageID statusMsg.ID (lines 229-233 and 269-273).
StatusEditNew(text) == [op |-> "send", msg |-> "new", text |-> text]

StatusEdit(text) == [op |-> "edit", msg |-> "statusMsg", text |-> text]

\* Where the loop is after it called b.EditMessageText for a progress text:
\* in the call, until it returns.
AfterEditAsync == "go"

AfterEdit == "editing"

\* Where the loop goes after the i-th errgroup.Go: line 224.
AfterGo(i) == IF i % ProgressEvery = 0 THEN "loadSuccess" ELSE "go"

\* sendToUser: the number of Bot API calls it makes for a message kind.
ApiCalls(kind) == IF kind \in Supported THEN 1 ELSE 0

sendToUserStrict(kind, delivered) ==
    IF kind \notin Supported \/ ~delivered THEN "err" ELSE "nil"

\* sendToUser: the error of the Bot API call for a kind it knows, nil for
\* every other kind.
sendToUser(kind, delivered) ==
    IF kind \in Supported /\ ~delivered THEN "err" ELSE "nil"

TallyLost(s, f, err) ==
    IF err # "nil" THEN [success |-> s, failed |-> f]
    ELSE [success |-> s + 1, failed |-> f]

TallyRetract(s, f, err) ==
    IF err # "nil" THEN [success |-> 0, failed |-> 0]
    ELSE [success |-> s + 1, failed |-> f]

\* Lines 212-220: the counters after a worker's sendToUser returned err.
Tally(s, f, err) ==
    IF err # "nil" THEN [success |-> s, failed |-> f + 1]
    ELSE [success |-> s + 1, failed |-> f]

TokenReadyAlways(n) == TRUE

\* rate.NewLimiter(rate.Every(time.Second/29), 1) is a bucket of Burst tokens
\* that gains one per 1/29 s while it is not full; rateLimiter.Wait returns
\* nil only by taking a token.
TokenReady(n) == n >= 1

MayAcquireAlways(done, waitingBefore) == TRUE

\* rateLimiter.Wait(ctx) may return nil for a worker while the context is
\* live, and for a worker that was already waiting when it was cancelled
\* (its timer and ctx.Done() are then both ready).
MayAcquire(done, waitingBefore) == ~done \/ waitingBefore

WorkerReturnErr(err) == err

\* Lines 208-221: what the worker returns to errgroup after sendToUser
\* returned err.  A non-nil return would cancel the group's context.
WorkerReturn(err) == "nil"

\* successRate of line 250 as %.1f prints it, in tenths of a percent.  The
\* rounding of a tie takes audiences of 16 and more.
SuccessRate(success, total) == (success * 2000 + total) \div (2 * total)

Go ==
    /\ bpc = "go"
    /\ idx < jobN
    /\ MayGo(Active)
    /\ wstate' = [wstate EXCEPT ![idx + 1] = "wait"]
    /\ idx' = idx + 1
    /\ bpc' = AfterGo(idx + 1)
    /\ UNCHANGED <<chatVars, adminVars, jobN, edits, inflight, tokens, tokenOf, msgType,
                   attempts, calls, pool, successCount, failedCount, curS,
                   curF, progress, summary, signal, ctxDone, cancelAt>>

Acquire(r) ==
    /\ wstate[r] = "wait"
    /\ MayAcquire(ctxDone, r <= cancelAt)
    /\ TokenReady(tokens)
    /\ tokens' = tokens - 1
    /\ tokenOf' = [tokenOf EXCEPT ![r] = @ + 1]
    /\ wstate' = [wstate EXCEPT ![r] = "send"]
    /\ UNCHANGED <<chatVars, adminVars, jobN, edits, inflight, msgType, idx, bpc, attempts,
                   calls, pool, successCount, failedCount,
                   curS, curF, progress, summary, signal, ctxDone, cancelAt>>

\* rateLimiter.Wait returns ctx.Err() and the worker returns it.
Abort(r) ==
    /\ wstate[r] = "wait"
    /\ ctxDone
    /\ wstate' = [wstate EXCEPT ![r] = "abort"]
    /\ UNCHANGED <<chatVars, adminVars, jobN, edits, inflight, tokens, tokenOf, msgType,
                   idx, bpc, attempts, calls, pool, successCount, failedCount,
                   curS, curF, progress, summary, signal, ctxDone, cancelAt>>

Send(r) ==
    /\ wstate[r] = "send"
    /\ \E delivered \in BOOLEAN :
          LET err == sendToUser(msgType, delivered)
              t == Tally(successCount, failedCount, err)
          IN  /\ wstate' = [wstate EXCEPT ![r] = IF err = "nil" THEN "ok" ELSE "fail"]
              /\ successCount' = t.success
              /\ failedCount' = t.failed
              /\ ctxDone' = (ctxDone \/ WorkerReturn(err) # "nil")
    /\ attempts' = [attempts EXCEPT ![r] = @ + 1]
    /\ calls' = [calls EXCEPT ![r] = @ + ApiCalls(msgType)]
    /\ UNCHANGED <<chatVars, adminVars, jobN, edits, inflight, tokens, tokenOf, msgType,
                   idx, bpc, pool, curS, curF, progress, summary,
                   signal, cancelAt>>

\* 1/29 s passes: the bucket of the limiter gains a token.
Refill ==
    /\ bpc \in {"go", "loadSuccess", "loadFailed", "edit", "editing"}
    /\ tokens < Burst
    /\ tokens' = tokens + 1
    /\ UNCHANGED <<chatVars, adminVars, jobN, edits, inflight, tokenOf, msgType, idx, bpc, wstate,
                   attempts, calls, pool, successCount, failedCount, curS, curF,
                   progress, summary, signal, ctxDone, cancelAt>>

\* errgroup.Wait returns once every goroutine has, and cancels the context.
GroupWait ==
    /\ bpc = "go"
    /\ idx = jobN
    /\ Active = 0
    /\ bpc' = "summary"
    /\ ctxDone' = TRUE
    /\ UNCHANGED <<chatVars, adminVars, jobN, edits, inflight, tokens, tokenOf, msgType,
                   idx, wstate, attempts, calls, pool, successCount,
                   failedCount, curS, curF, progress, summary, signal, cancelAt>>

\* Lines 248-274.
Summary ==
    /\ bpc = "summary"
    /\ summary' = [total |-> jobN, success |-> successCount, failed |-> failedCount,
                   rate |-> SuccessRate(successCount, jobN)]
    /\ edits' = Append(edits, StatusEdit("summary"))
    /\ bpc' = "done"
    /\ UNCHANGED <<chatVars, adminVars, jobN, inflight, tokens, tokenOf, msgType, idx,
                   wstate, attempts, calls, pool, successCount,
                   failedCount, curS, curF, progress, signal, ctxDone, cancelAt>>

\* The context of the handler is cancelled (main cancels it on SIGINT).
Cancel ==
    /\ bpc \in {"go", "loadSuccess", "loadFailed", "edit", "summary"}
    /\ ~signal
    /\ signal' = TRUE
    /\ ctxDone' = TRUE
    /\ cancelAt' = idx
    /\ UNCHANGED <<chatVars, adminVars, jobN, edits, inflight, tokens, tokenOf, msgType,
                   idx, bpc, wstate, attempts, calls, pool, successCount,
                   failedCount, curS, curF, progress, summary>>

(***************************************************************************)
(* The same loop, never cancelled, with its workers counted: pool.wait of  *)
(* them are in rateLimiter.Wait and pool.send in sendToUser.               *)
(***************************************************************************)
PoolGo ==
    /\ bpc = "go"
    /\ idx < jobN
    /\ MayGo(Active)
    /\ pool' = [pool EXCEPT !.wait = @ + 1]
    /\ idx' = idx + 1
    /\ bpc' = AfterGo(idx + 1)
    /\ UNCHANGED <<chatVars, adminVars, jobN, edits, inflight, tokens, tokenOf, msgType,
                   wstate, attempts, calls, successCount, failedCount, curS,
                   curF, progress, summary, signal, ctxDone, cancelAt>>

PoolAcquire ==
    /\ pool.wait > 0
    /\ MayAcquire(ctxDone, FALSE)
    /\ TokenReady(tokens)
    /\ tokens' = tokens - 1
    /\ pool' = [pool EXCEPT !.wait = @ - 1, !.send = @ + 1]
    /\ UNCHANGED <<chatVars, adminVars, jobN, edits, inflight, tokenOf, msgType, idx, bpc,
                   wstate, attempts, calls, successCount,
                   failedCount, curS, curF, progress, summary, signal, ctxDone,
                   cancelAt>>

PoolSend ==
    /\ pool.send > 0
    /\ \E delivered \in BOOLEAN :
          LET err == sendToUser(msgType, delivered)
              t == Tally(successCount, failedCount, err)
          IN  /\ successCount' = t.success
              /\ failedCount' = t.failed
              /\ ctxDone' = (ctxDone \/ WorkerReturn(err) # "nil")
    /\ pool' = [pool EXCEPT !.send = @ - 1]
    /\ UNCHANGED <<chatVars, adminVars, jobN, edits, inflight, tokens, tokenOf, msgType,
                   idx, bpc, wstate, attempts, calls, curS, curF, progress,
                   summary, signal, cancelAt>>

\* Lines 225-226: the two counters are read one after the other.
LoadSuccess ==
    /\ bpc = "loadSuccess"
    /\ curS' = successCount
    /\ bpc' = "loadFailed"
    /\ UNCHANGED <<chatVars, adminVars, jobN, edits, inflight, tokens, tokenOf, msgType,
                   idx, wstate, attempts, calls, pool, successCount,
                   failedCount, curF, progress, summary, signal, ctxDone, cancelAt>>

LoadFailed ==
    /\ bpc = "loadFailed"
    /\ curF' = failedCount
    /\ bpc' = "edit"
    /\ UNCHANGED <<chatVars, adminVars, jobN, edits, inflight, tokens, tokenOf, msgType,
                   idx, wstate, attempts, calls, pool, successCount,
                   failedCount, curS, progress, summary, signal, ctxDone, cancelAt>>

\* Lines 227-239: b.EditMessageText is called and the loop waits for it;
\* currentSuccess and currentFailed are not read again.
EditProgress ==
    /\ bpc = "edit"
    /\ progress' = Append(progress, [dispatched |-> idx, sum |-> curS + curF])
    /\ edits' = Append(edits, StatusEdit("progress"))
    /\ inflight' = inflight + 1
    /\ curS' = 0
    /\ curF' = 0
    /\ bpc' = AfterEdit
    /\ UNCHANGED <<chatVars, adminVars, jobN, tokens, tokenOf, msgType, idx, wstate,
                   attempts, calls, pool, successCount,
                   failedCount, summary, signal, ctxDone, cancelAt>>

\* The Bot API answers the progress edit and EditMessageText returns.
EditReturn ==
    /\ inflight > 0
    /\ inflight' = inflight - 1
    /\ bpc' = IF bpc = "editing" THEN "go" ELSE bpc
    /\ UNCHANGED <<chatVars, adminVars, jobN, edits, tokens, tokenOf, msgType, idx, wstate,
                   attempts, calls, pool,
                   successCount, failedCount, curS, curF, progress, summary, signal,
                   ctxDone, cancelAt>>

BroadcastNext ==
    \/ Go
    \/ \E r \in Recipients : Acquire(r)
    \/ \E r \in Recipients : Abort(r)
    \/ \E r \in Recipients : Send(r)
    \/ Refill
    \/ GroupWait
    \/ Summary
    \/ Cancel

\* The steps the goroutines of the job take by themselves.
JobStep ==
    \/ Go
    \/ \E r \in Recipients : Acquire(r)
    \/ \E r \in Recipients : Abort(r)
    \/ \E r \in Recipients : Send(r)
    \/ Refill
    \/ GroupWait
    \/ Summary

PoolNext ==
    \/ PoolGo
    \/ PoolAcquire
    \/ PoolSend
    \/ Refill
    \/ LoadSuccess
    \/ LoadFailed
    \/ EditProgress
    \/ EditReturn
    \/ GroupWait
    \/ Summary

\* Audiences of up to two progress blocks: below one block, and more than
\* SetLimit lets run.
PoolSizes == (2 * ProgressEvery - MaxShort)..(2 * ProgressEvery)

(***************************************************************************)
(* The admin's conversation.  The texts the admin sends are named by their *)
(* Latin part: "Messages" is the menu label that opens the broadcast menu, *)
(* "Money" stands for the labels that only answer with figures, the four   *)
(* audience labels are named by the broadcast type they select, "hello" is *)
(* any other text.                                                         *)
(***************************************************************************)
NoAdminState == [State |-> "nil", BroadCastType |-> ""]
AdminState(st, type) == [State |-> st, BroadCastType |-> type]

\* The texts main registers AdminHandler for, by exact match.
Registered == {"/admin", "Money", "Messages", "Close"}
AudienceLabels == {"all", "clients", "loto", "just"}
\* The text on the button the broadcast menu offers for each audience: the
\* button of the lottery participants ends in a space the label
\* SendMessage compares with does not have.
BroadcastMenuButtons ==
    [a \in AudienceLabels |-> IF a = "loto" THEN "loto " ELSE a]
ButtonTexts == {BroadcastMenuButtons[a] : a \in AudienceLabels}
AdminTexts == Registered \cup AudienceLabels \cup ButtonTexts \cup {"Back", "hello"}

\* What loading the audience and sending the status message can come to.
Loads == {"error", "empty", "noStatus", "some"}

NoAdminEvent == [text |-> "", before |-> NoAdminState, replies |-> {}, broadcast |-> ""]

AdminEvent(text, r) ==
    [text |-> text, before |-> adminState, replies |-> r.replies, broadcast |-> r.broadcast]

AdminInit ==
    /\ adminState = NoAdminState
    /\ adminEv = NoAdminEvent
    /\ running = 0

Outcome(st, replies, payload) == [state |-> st, replies |-> replies, broadcast |-> payload]

\* AdminHandler's case "/admin" for an admin that is not composing a broadcast.
AdminPanel(replies, payload) ==
    Outcome(AdminState(stateAdminPanel, ""), replies \cup {"menu"}, payload)

\* Handler.SendMessage.  With an audience selected the message is the payload:
\* it goes to every recipient, the summary is edited in, the state is deleted
\* and AdminHandler is called with the text "/admin".
SendMessage(st, text, load) ==
    IF text \in AudienceLabels
    THEN Outcome(AdminState(stateBroadcast, text), {"compose"}, "")
    ELSE IF text = "Back" THEN AdminPanel({}, "")
    ELSE IF st.State # stateBroadcast THEN Outcome(st, {}, "")
    ELSE IF st.BroadCastType \notin AudienceLabels THEN Outcome(st, {"error"}, "")
    ELSE IF load = "error" THEN Outcome(st, {"error"}, "")
    ELSE IF load = "empty" THEN Outcome(st, {"noUsers"}, "")
    ELSE IF load = "noStatus" THEN Outcome(st, {}, "")
    ELSE AdminPanel({"status", "summary"}, text)

\* Handler.AdminHandler for the admin.
AdminHandler(st, text, load) ==
    IF st.State = stateBroadcast THEN SendMessage(st, text, load)
    ELSE IF text = "/admin" THEN AdminPanel({}, "")
    ELSE IF text = "Messages"
    THEN Outcome(AdminState(stateBroadcast, ""), {"broadcastMenu"}, "")
    ELSE IF text = "Close" THEN Outcome(NoAdminState, {"closed"}, "")
    ELSE IF text = "Money" THEN Outcome(st, {"figures"}, "")
    ELSE IF st.State = stateAdminPanel THEN Outcome(st, {"unknown"}, "")
    ELSE Outcome(st, {}, "")

\* A text main has registered AdminHandler for.
AdminCommand(text) ==
    /\ text \in Registered
    /\ \E load \in Loads :
          LET r == AdminHandler(adminState, text, load)
          IN  /\ adminState' = r.state
              /\ adminEv' = AdminEvent(text, r)
    /\ UNCHANGED <<chatVars, jobVars, running>>

\* Any other text of the admin: DefaultHandler creates the start record when
\* there is none and dispatches on the state.
AdminMessage(text) ==
    /\ text \notin Registered
    /\ \E load \in Loads :
          LET st == IF adminState = NoAdminState
                    THEN AdminState(stateStart, "") ELSE adminState
              r == IF st.State = stateAdminPanel THEN AdminHandler(st, text, load)
                   ELSE IF st.State = stateBroadcast THEN SendMessage(st, text, load)
                   ELSE Outcome(st, {"promo"}, "")
          IN  /\ adminState' = r.state
              /\ adminEv' = AdminEvent(text, r)
    /\ UNCHANGED <<chatVars, jobVars, running>>

\* SendMessage up to line 203 for a payload: the audience is loaded, the
\* status message sent, and a limiter, two counters and an errgroup are
\* made for this call.  h.state is left as it is until line 284.
PayloadStart(text) ==
    /\ text \notin AudienceLabels \cup {"Back"}
    /\ adminState.State = stateBroadcast
    /\ adminState.BroadCastType \in AudienceLabels
    /\ running < MaxJobs
    /\ running' = running + 1
    /\ adminEv' = AdminEvent(text, Outcome(adminState, {"status"}, text))
    /\ UNCHANGED <<chatVars, jobVars, adminState>>

\* SendMessage from line 243: Wait has returned, the summary is edited in,
\* the admin's entry is deleted and AdminHandler called with "/admin".
PayloadEnd ==
    /\ running > 0
    /\ running' = running - 1
    /\ LET r == AdminHandler(NoAdminState, "/admin", "some")
       IN  /\ adminState' = r.state
           /\ adminEv' = AdminEvent("/admin",
                                    [r EXCEPT !.replies = @ \cup {"summary"}])
    /\ UNCHANGED <<chatVars, jobVars>>

\* The admin's messages with the broadcasts taking their time.
JobsNext ==
    \/ \E text \in AdminTexts : AdminCommand(text)
    \/ \E text \in AdminTexts : AdminMessage(text)
    \/ \E text \in AdminTexts : PayloadStart(text)
    \/ PayloadEnd

AdminNext ==
    \/ \E text \in AdminTexts : AdminCommand(text)
    \/ \E text \in AdminTexts : AdminMessage(text)

\* One of the texts main has registered AdminHandler for, sent by u.  For a
\* sender that is not cfg.AdminID the handler returns at line 18; for the
\* admin it does what AdminHandler does.
AdminLabel(u) ==
    /\ ev' = Event(u, "adminLabel", {})
    /\ fault' = NoFault
    /\ IF IsAdmin(u)
       THEN /\ \E text \in Registered, load \in Loads :
                  LET r == AdminHandler(adminState, text, load)
                  IN  /\ adminState' = r.state
                      /\ adminEv' = AdminEvent(text, r)
            /\ UNCHANGED running
       ELSE UNCHANGED adminVars
    /\ UNCHANGED <<store, just, lotoCount, clients, buttons, jobVars>>

ChatNext ==
    \E u \in Users :
        \/ TextMessage(u)
        \/ \E doc \in Docs : DocumentMessage(u, doc)
        \/ ContactMessage(u)
        \/ BuyCosmeticsCallbackHandler(u)
        \/ \E n \in Quantities : CountHandler(u, n)
        \/ AdminLabel(u)

Init == ChatInit /\ JobIdle /\ AdminInit
Next == ChatNext
Spec == Init /\ [][Next]_vars

BroadcastInit == ChatInit /\ JobStart(1..MaxAudience, BroadcastKinds) /\ AdminInit
SpecBroadcast == BroadcastInit /\ [][BroadcastNext]_vars

\* The Go scheduler runs every goroutine that can take a step.
SpecBroadcastLive == SpecBroadcast /\ WF_vars(JobStep)

PoolInit == ChatInit /\ JobStart(PoolSizes, {"text"}) /\ AdminInit
SpecPool == PoolInit /\ [][PoolNext]_vars

SpecAdmin == Init /\ [][AdminNext]_vars
SpecJobs == Init /\ [][JobsNext]_vars

\* One user's updates, each handled with any of the store failures.
FaultyText(u) ==
    (\E f \in Faults : DefaultHandler(u, "text", NoDoc, f)) /\ UNCHANGED <<jobVars, adminVars>>
FaultyDocument(u, doc) ==
    (\E f \in Faults : DefaultHandler(u, "document", doc, f)) /\ UNCHANGED <<jobVars, adminVars>>
FaultyContact(u) ==
    (\E f \in Faults : DefaultHandler(u, "contact", NoDoc, f)) /\ UNCHANGED <<jobVars, adminVars>>
FaultyBuy(u) == \E f \in Faults : BuyCosmetics(u, f)
FaultyCount(u, n) == \E f \in Faults : Count(u, n, f)

FaultyNext ==
    \/ FaultyText(1)
    \/ \E doc \in Docs : FaultyDocument(1, doc)
    \/ FaultyContact(1)
    \/ FaultyBuy(1)
    \/ \E n \in Quantities : FaultyCount(1, n)
SpecFaulty == Init /\ [][FaultyNext]_vars

\* One user buys, pays, shares the contact and posts the delivery form.
FormNext ==
    \/ TextMessage(1)
    \/ \E doc \in Docs : DocumentMessage(1, doc)
    \/ ContactMessage(1)
    \/ BuyCosmeticsCallbackHandler(1)
    \/ \E n \in Quantities : CountHandler(1, n)
    \/ ClientSaveHandler(1)
SpecForm == Init /\ [][FormNext]_vars

\* One user walks to the quantity menu and presses its buttons.
MenuNext ==
    \/ TextMessage(1)
    \/ BuyCosmeticsCallbackHandler(1)
    \/ \E n \in Menu : CountHandler(1, n)
SpecMenu == Init /\ [][MenuNext]_vars

\* The chat handlers run while one broadcast job over a single recipient is
\* under way: the bot serves every update in a goroutine of its own.  The one
\* recipient takes the limiter's initial token, so no refill is awaited.  The
\* documents are one the receipt handlers reject and one receipt of one unit.
MixedInit == ChatInit /\ JobStart({1}, {"text"}) /\ AdminInit
MixedDocs == {Doc(FALSE, FALSE, FALSE, Garbled), Doc(TRUE, TRUE, TRUE, Cost)}
MixedNext ==
    \/ \E u \in Users :
          \/ TextMessage(u)
          \/ \E doc \in MixedDocs : DocumentMessage(u, doc)
          \/ ContactMessage(u)
          \/ BuyCosmeticsCallbackHandler(u)
          \/ \E n \in Quantities : CountHandler(u, n)
          \/ AdminLabel(u)
    \/ Go
    \/ \E r \in Recipients : Acquire(r)
    \/ \E r \in Recipients : Send(r)
    \/ GroupWait
    \/ Summary
SpecMixed == MixedInit /\ [][MixedNext]_vars

(***************************************************************************)
(* The claims.                                                             *)
(***************************************************************************)

\* C1: when a broadcast job over N recipients that was never cancelled has
\* finished (every worker has returned and errgroup.Wait has returned),
\* successCount + failedCount = N, whatever each send answered and however
\* the workers interleaved.
C1_CountsAddUp ==
    (bpc \in {"summary", "done"} /\ ~signal) => successCount + failedCount = jobN

C1_Witness ==
    /\ bpc = "done"
    /\ ~signal
    /\ jobN >= 3
    /\ successCount > 0
    /\ failedCount > 0

\* C2: a document uploaded in AwaitingPayment that cannot be read, whose
\* price does not parse or that the Validator rejects leaves the user in
\* AwaitingPayment with isPaid false.
C2_RejectionKeepsPhase ==
    (/\ ev.kind = "document"
     /\ ev.before.State = statePaid
     /\ ev.verdict \in {"unreadable", "garbled", "mismatch"})
        => (store[ev.user].State = statePaid /\ ~store[ev.user].IsPaid)

\* C3: accepting a receipt of a user whose quantity is q persists exactly
\* 3 * q lottery entries with pairwise distinct ticket numbers and turns
\* isPaid from false to true.
C3_AcceptedReceipt ==
    (ev.kind = "document" /\ ev.verdict = "match")
        => /\ ev.inserted = TicketsPerUnit * store[ev.user].Count
           /\ ev.distinct
           /\ ~ev.before.IsPaid
           /\ store[ev.user].IsPaid

\* C4: an event whose (phase, kind) is no row of the transition table leaves
\* the phase as it was, and a plain text in AwaitingQuantity computes no
\* price.
C4_OffTableKeepsPhase ==
    LET from == IF ev.before = NoState THEN stateStart ELSE ev.before.State
        offTable ==
            \/ from = stateCount
                   /\ ev.kind \in {"text", "document", "contact", "buy", "adminLabel"}
            \/ from = statePaid
                   /\ ev.kind \in {"text", "contact", "buy", "quantity", "adminLabel"}
            \/ from = stateContact /\ ev.kind \in {"buy", "quantity"}
    IN  offTable => /\ Phase(ev.user) = from
                    /\ (ev.kind = "text" /\ from = stateCount) => ev.price = 0

\* C5: at every moment of a broadcast job at most 10 workers have been
\* started and have not returned.
C5_AtMostLimitInFlight == Active <= Limit

C5_Witness ==
    /\ Active = Limit
    /\ bpc = "go"
    /\ idx < jobN
    /\ pool.wait > 0
    /\ pool.send > 0

\* C6: a failed send neither cancels the job nor keeps any other recipient
\* from its send: in a job that is not cancelled every recipient gets exactly
\* one sendToUser call, failedCount is the number of recipients whose call
\* returned an error and successCount the number whose call returned nil;
\* [A, B] with A failing reports 1, 1 and 50.0%, [A, B, C] all succeeding
\* reports 3, 0 and 100.0%.
C6_FailureIsolation ==
    LET failed == {r \in 1..jobN : wstate[r] = "fail"}
        succeeded == {r \in 1..jobN : wstate[r] = "ok"}
    IN  /\ \A r \in Recipients : attempts[r] <= 1
        /\ (~signal /\ bpc = "go") => ~ctxDone
        /\ (~signal /\ bpc \in {"summary", "done"}) =>
               /\ \A r \in 1..jobN : attempts[r] = 1
               /\ failed \cup succeeded = 1..jobN
               /\ failedCount = Cardinality(failed)
               /\ successCount = Cardinality(succeeded)
        /\ (~signal /\ bpc = "done") =>
               /\ summary.total = jobN
               /\ summary.failed = Cardinality(failed)
               /\ summary.success = Cardinality(succeeded)
               /\ (jobN = 2 /\ failed = {1}) => summary.rate = 500
               /\ (jobN = 3 /\ failed = {}) => summary.rate = 1000

C6_Witness ==
    /\ bpc = "done"
    /\ ~signal
    /\ jobN = 2
    /\ wstate[1] = "fail"
    /\ wstate[2] = "ok"
    /\ attempts[2] = 1
    /\ summary = [total |-> 2, success |-> 1, failed |-> 1, rate |-> 500]

\* C7: once the cancellation signal has fired with k recipients dispatched,
\* a worker that has seen the cancellation makes no send, the recipients not
\* dispatched by then get no send, the reported successCount + failedCount is
\* at most k, and the job goes on to its summary.
C7_Cancellation ==
    /\ [](signal =>
            /\ \A r \in Recipients :
                   (r > cancelAt \/ wstate[r] = "abort") => attempts[r] = 0
            /\ successCount + failedCount <= cancelAt
            /\ bpc = "done" =>
                   /\ summary.total = jobN
                   /\ summary.success + summary.failed <= cancelAt)
    /\ (signal ~> bpc = "done")

C7_Witness ==
    /\ signal
    /\ bpc = "done"
    /\ jobN = 5
    /\ cancelAt = 2
    /\ summary.success + summary.failed = 2
    /\ \A r \in 3..5 : wstate[r] = "abort"

\* C8: from one progress edit to the next, and on to the final summary,
\* the reported successCount + failedCount never decreases, and every
\* report is at most the number of workers dispatched by then.
C8_SnapshotsMonotone ==
    /\ \A i \in 1..Len(progress) : progress[i].sum <= progress[i].dispatched
    /\ \A i \in 1..(Len(progress) - 1) : progress[i].sum <= progress[i + 1].sum
    /\ bpc = "done" =>
           /\ summary.success + summary.failed <= idx
           /\ \A i \in 1..Len(progress) :
                  progress[i].sum <= summary.success + summary.failed

C8_Witness ==
    /\ bpc = "done"
    /\ Len(progress) = 2
    /\ 0 < progress[1].sum
    /\ progress[1].sum < progress[2].sum
    /\ progress[2].sum < summary.success + summary.failed

\* C9: in every reachable state a user whose phase is AwaitingContact has
\* isPaid true.
C9_ContactImpliesPaid ==
    \A u \in Users : store[u].State = stateContact => store[u].IsPaid

C9_Witness ==
    /\ ev.kind = "document"
    /\ ev.before.State = statePaid
    /\ ~ev.before.IsPaid
    /\ store[ev.user].State = stateContact

\* C10: after the quantity was set on entering AwaitingPayment no event
\* changes it until the conversation is reset (the state deleted or back at
\* Start).
C10_QuantityImmutable ==
    (/\ ev.kind # "none"
     /\ ev.before.State \in {statePaid, stateContact}
     /\ Phase(ev.user) # stateStart)
        => store[ev.user].Count = ev.before.Count

\* C11: for a user in Start, or with no stored state, every message (text,
\* photo, document, contact) is answered with the promotional content and
\* its 'buy' button and leaves the phase Start; only the 'buy' button moves
\* the user out of Start.
C11_StartAnswersPromo ==
    LET from == IF ev.before = NoState THEN stateStart ELSE ev.before.State
    IN  (ev.kind # "none" /\ from = stateStart) =>
            /\ ev.kind \in {"text", "document", "contact"} => "promo" \in ev.sent
            /\ ev.kind # "buy" => Phase(ev.user) = stateStart

\* C12 as stated: with a message kind sendToUser does not send, a send adds
\* to neither counter, and a job that is not cancelled ends with
\* successCount + failedCount < N.
C12_UnsupportedCountsNothing ==
    msgType \notin Supported =>
        /\ successCount = 0
        /\ failedCount = 0
        /\ (bpc = "done" /\ ~signal) => summary.success + summary.failed < jobN

\* C12 as amended: with a message kind sendToUser does not send, a send
\* makes no Bot API call and returns nil, and the worker counts it as a
\* success: no failure is counted, and a job that is not cancelled ends with
\* successCount = N.
C12_UnsupportedCountsSuccess ==
    msgType \notin Supported =>
        /\ \A r \in Recipients : calls[r] = 0
        /\ failedCount = 0
        /\ successCount = Cardinality({r \in Recipients : attempts[r] = 1})
        /\ (bpc = "done" /\ ~signal) =>
               summary = [total |-> jobN, success |-> jobN, failed |-> 0, rate |-> 1000]

C12_Witness ==
    /\ msgType = "location"
    /\ bpc = "done"
    /\ ~signal
    /\ jobN >= 2
    /\ \A r \in 1..jobN : attempts[r] = 1 /\ calls[r] = 0
    /\ summary.success = jobN

\* C13: after every recipient's send has been attempted the job issues
\* exactly one completion summary (total, successes, failures, rate), as an
\* edit of the status message the progress texts were edited into, and no
\* progress edit is issued after it.
C13_OneSummaryLast ==
    LET sums == {i \in 1..Len(edits) : edits[i].text = "summary"}
    IN  /\ \A i \in sums : i = Len(edits)
        /\ \A i \in 1..Len(edits) : edits[i].op = "edit" /\ edits[i].msg = "statusMsg"
        /\ (sums # {}) <=> (bpc = "done")
        /\ bpc = "done" =>
               /\ successCount + failedCount = jobN
               /\ inflight = 0
               /\ summary.total = jobN
               /\ summary.success = successCount
               /\ summary.failed = failedCount
               /\ summary.rate * 2 * jobN <= successCount * 2000 + jobN
               /\ successCount * 2000 + jobN < (summary.rate + 1) * 2 * jobN

C13_Witness ==
    /\ bpc = "done"
    /\ Len(edits) = 3
    /\ edits[1].text = "progress"
    /\ edits[2].text = "progress"
    /\ edits[3].text = "summary"
    /\ summary.failed > 0

\* C14: a progress text is issued exactly after the 10th, 20th, ...
\* dispatched worker (floor(N / 10) of them, none when N < 10), each as an
\* edit of the one status message, and the loop issues them one at a time:
\* while an edit is in flight the loop dispatches nothing and issues no
\* other edit.
C14_ProgressEveryTen ==
    /\ \A i \in 1..Len(progress) :
           /\ progress[i].dispatched = 10 * i
           /\ edits[i] = [op |-> "edit", msg |-> "statusMsg", text |-> "progress"]
    /\ Len(progress) =
           IF bpc \in {"loadSuccess", "loadFailed", "edit"}
           THEN idx \div 10 - 1 ELSE idx \div 10
    /\ bpc = "done" => Len(progress) = jobN \div 10
    /\ inflight <= 1
    /\ inflight = 1 => bpc = "editing"

C14_Witness ==
    /\ bpc = "editing"
    /\ inflight = 1
    /\ jobN = 20
    /\ idx = 20
    /\ Len(progress) = 2
    /\ pool.wait + pool.send > 0

\* C15: every send is preceded by its worker taking one token from the one
\* limiter (burst 1) all workers of the job share: no worker calls
\* sendToUser or the Bot API without a token, the bucket never gives a
\* token it does not hold, and a worker whose rateLimiter.Wait failed makes
\* no send and adds to no counter.
C15_TokenBeforeSend ==
    /\ tokens \in 0..1
    /\ \A r \in Recipients :
           /\ tokenOf[r] <= 1
           /\ attempts[r] <= tokenOf[r]
           /\ calls[r] <= tokenOf[r]
           /\ wstate[r] \in {"send", "ok", "fail"} => tokenOf[r] = 1
           /\ wstate[r] = "abort" =>
                  tokenOf[r] = 0 /\ attempts[r] = 0 /\ calls[r] = 0
    /\ successCount + failedCount =
           Cardinality({r \in Recipients : wstate[r] \in {"ok", "fail"}})

C15_Witness ==
    /\ jobN >= 4
    /\ msgType = "text"
    /\ wstate[1] = "ok"
    /\ wstate[2] = "abort"
    /\ wstate[3] = "send"
    /\ wstate[4] = "wait"
    /\ tokens = 0
    /\ successCount + failedCount = 1


\* C16: a step that handles an update of user A leaves the stored record
\* (phase, quantity, isPaid) of every other user B unchanged, and a step of the
\* broadcast job leaves every user's record unchanged, however the handler
\* steps and the job's steps interleave.
C16_OthersUntouched ==
    [][/\ \A B \in Users : B # ev'.user => store'[B] = store[B]
       /\ jobVars' # jobVars => store' = store]_vars

C16_Witness ==
    /\ ev.user = 1
    /\ ev.kind = "quantity"
    /\ store[1].State = statePaid
    /\ store[2].State = stateContact
    /\ successCount + failedCount = 1
    /\ bpc # "done"

\* C17: the first message (text, document, contact) of a user with no stored
\* record is handled as for the record {start, 0, unpaid}: that record is
\* created and saved, and StartHandler is the handler dispatched, so the
\* promotional content is the answer and the record stays as created.
C17_NoStateHandledAsStart ==
    (ev.kind \in {"text", "document", "contact"} /\ ev.before = NoState) =>
        /\ store[ev.user] = UserState(stateStart, 0, FALSE)
        /\ "promo" \in ev.sent

\* C18: the quantity menu offers exactly the buttons 1..30, and for every
\* button n of it pressed by a user in AwaitingQuantity the announced sum is
\* n * Cost, and the saved record is {paid phase, quantity n, not paid}.
C18_PriceIsQuantityTimesCost ==
    /\ Menu = 1..30
    /\ (ev.kind = "quantity" /\ ev.before.State = stateCount) =>
           /\ ev.pressed \in 1..30
           /\ ev.price = ev.pressed * Cost
           /\ store[ev.user] = UserState(statePaid, ev.pressed, FALSE)

C18_Witness ==
    /\ ev.kind = "quantity"
    /\ ev.before.State = stateCount
    /\ ev.pressed = 30
    /\ ev.price = 567000
    /\ store[ev.user].Count = 30

\* C19: whatever the admin's phase, broadcast composition with an audience
\* selected included, the command /admin leaves the admin in the admin panel
\* with the admin menu presented, and the text "/admin" is broadcast to no
\* recipient.
C19_AdminCommandOpensPanel ==
    adminEv.text = "/admin" =>
        /\ adminState.State = stateAdminPanel
        /\ "menu" \in adminEv.replies
        /\ adminEv.broadcast # "/admin"

C21_OneClientRow ==
    [][\A u \in Users :
          /\ clients'[u] > clients[u] => IsClientUnique(clients[u])
          /\ clients'[u] <= 1]_vars

\* C22: when the admin, composing a broadcast, sends a message that is
\* neither an audience label nor "Back", the handling of that message ends
\* with the admin in the admin panel, on every path: the job ran, the
\* audience was empty or not selected or not loadable, the status message
\* could not be sent.
C22_PayloadEndsInPanel ==
    (adminEv.before.State = stateBroadcast
     /\ adminEv.text \in AdminTexts \ (AudienceLabels \cup {"Back"})) =>
        adminState.State = stateAdminPanel

\* C23: for each of the four audiences, the text of the button the broadcast
\* menu offers for it is a label SendMessage recognises, and pressing it
\* while composing stores that audience, keeps the admin composing and
\* broadcasts nothing.
C23_MenuButtonsSelectAudience ==
    \A a \in AudienceLabels :
        (adminEv.before.State = stateBroadcast
         /\ adminEv.text = BroadcastMenuButtons[a]) =>
            /\ adminEv.text \in AudienceLabels
            /\ adminState = AdminState(stateBroadcast, a)
            /\ adminEv.broadcast = ""

\* What the handler of the last update sends once it has computed a new
\* state: nothing is expected of an update that computes none.
Outbound ==
    IF ev.kind = "buy" THEN {"menu"}
    ELSE IF ev.kind = "quantity" THEN {"pay"}
    ELSE IF ev.kind = "document" /\ ev.before.State \notin {statePaid, stateContact}
            /\ ev.verdict = "match" THEN {"accepted"}
    ELSE IF ev.kind = "document" /\ ev.before.State = statePaid
            /\ ev.verdict \in {"garbled", "mismatch", "match"} THEN {"accepted"}
    ELSE IF ev.kind = "contact" /\ ev.before.State = stateContact /\ ~ev.panic
    THEN {"address"}
    ELSE {}

\* C24: when the write of the new state fails in a handler that has computed
\* one (buy pressed, quantity selected, receipt accepted, contact shared),
\* the handler still sends what the event calls for (quantity menu, payment
\* instructions, ticket list with contact prompt, address prompt), and the
\* stored state is the old one.
C24_WriteFailureOnlyLogged ==
    (~fault.write /\ Outbound # {}) =>
        /\ Outbound \subseteq ev.sent
        /\ store[ev.user] = ev.before

\* The handler of the last update read the user's state a second time.
ReadAgain ==
    \/ /\ ev.kind = "document"
       /\ ev.before.State = statePaid
       /\ ev.verdict \notin {"notPdf", "noFetch", "unreadable"}
    \/ ev.kind = "contact" /\ ev.before.State = stateContact

\* C25: when a read of the user's state fails or finds nothing, the update
\* is handled without a crash: after a failed read in the dispatcher a text
\* or a contact gets the answer of the Start phase, and a failed or empty
\* second read in the receipt or the contact handler does not panic.
C25_ReadFailureFallsBack ==
    /\ (fault.read = "err" /\ ev.kind \in {"text", "contact", "document"}) =>
           /\ ~ev.panic
           /\ ev.kind # "document" => ev.sent = {"promo"}
    /\ (fault.reread # "ok" /\ ReadAgain) => ~ev.panic

\* C26: a receipt that fails a validation (wrong extension, fetch failure,
\* text extraction failure, unparsable price, price mismatch), in whatever
\* phase it is uploaded, gets at least one retry or error message.
C26_RejectedReceiptAnswered ==
    (/\ ev.kind = "document"
     /\ ev.verdict \in {"notPdf", "noFetch", "unreadable", "garbled", "mismatch"})
        => ev.sent \cap {"onlyPdf", "retry"} # {}

\* C27: in a job that is not cancelled from outside, the context handed to
\* the edit of the final summary and to the return to the admin menu is not
\* done when those calls are made.
C27_SummaryContextLive ==
    (~signal /\ bpc \in {"summary", "done"}) => ~ctxDone

\* C28: at most one broadcast job runs at any time: a payload sent while a
\* job is in progress starts no second job with a limiter of its own.
C28_OneJobAtATime == running <= 1

\* The last update was a receipt that JustPaid found valid.
ValidInJustPaid ==
    /\ ev.kind = "document"
    /\ ev.verdict = "match"
    /\ ev.before.State \notin {statePaid, stateContact} \/ fault.read = "err"

\* C29: a receipt leaves the user in {AwaitingContact, paid} only if all
\* 3 * quantity lottery entries of that receipt were persisted.
C29_AcceptanceAllOrNothing ==
    (/\ ValidInJustPaid
     /\ store[ev.user].State = stateContact
     /\ store[ev.user].IsPaid)
        => ev.inserted = TicketsPerUnit * store[ev.user].Count

\* C30: a user that is not the admin never has the phase AdminPanel or
\* AdminBroadcastCompose and never causes a broadcast, whatever texts
\* (registered admin texts included), documents and button presses the
\* users send: no user's record holds an admin phase, the admin's entry is
\* never created, and no job is started.
C30_NonAdminNeverAdmin ==
    /\ \A u \in Users : store[u].State \notin {stateAdminPanel, stateBroadcast}
    /\ adminState = NoAdminState
    /\ adminEv = NoAdminEvent
    /\ running = 0
    /\ bpc = "idle"

\* A user who has paid sends a registered admin text.
C30_Witness ==
    /\ ev.kind = "adminLabel"
    /\ ev.before.State = stateContact
    /\ \E u \in Users \ {ev.user} : store[u].State = statePaid

====
